---------------------------- MODULE Spec2Model ----------------------------
(***************************************************************************)
(* Model of the aggregation and ROI-scoring pipeline of run.py             *)
(* (analyze_property_data): the listing loop, the scoring loop and the     *)
(* final sort and export; of main with its two fetch coroutines; and of    *)
(* the scripts that post-process the export (fix_location.py,              *)
(* fix_grouping.py, dollar.py and the top list of doebi123.py).            *)
(*                                                                         *)
(* Representation of Python values                                         *)
(*   None / absent key      <<>>            (an optional is a 0/1-tuple)   *)
(*   a present number v     <<v>>                                          *)
(*   float results          exact rationals <<num, den>>, den > 0, reduced *)
(*                          (prices, sizes and coordinates are integers;   *)
(*                          coordinates are in tenths of a degree); the    *)
(*                          rounding of IEEE doubles is not modelled       *)
(*   rendered text          a tuple of one-character strings               *)
(*   dict (insertion order) a tuple of entries, in insertion order         *)
(*                                                                         *)
(* Specifications.  Those of the analysis share Next and differ in the     *)
(* file contents Init draws from:                                          *)
(*   Spec      two buildings, two buckets, a zero sale price, and a sale   *)
(*             record value-equal to a rent record                         *)
(*   SpecTie   interleaved buildings with equal weighted_roi               *)
(*   SpecPerm  groups with pairwise different weighted_roi                 *)
(*   SpecSize  sizes around the bucket boundaries                          *)
(*   SpecDrop  listings with missing fields                                *)
(*   SpecNull  listings with null names and partial geolocations           *)
(*   SpecLoad  the analysis from its load_json_file calls on (NextLoad)    *)
(*   SpecMain  main: both fetch coroutines, then the analysis (NextMain)   *)
(*   SpecPost  the post-processing scripts run on an export (NextPost)     *)
(* and those of the post-processing scripts share NextPost:                *)
(*   SpecNear  coordinates less than 0.00001 degree apart                  *)
(*   SpecGroup interleaved buildings, records without a building name      *)
(*   SpecRange exports with negative and four-digit size buckets           *)
(***************************************************************************)
EXTENDS Integers, Sequences, FiniteSets, TLC

VARIABLES
    fpc,            \* per stream, where its fetch coroutine is: "start", "await"
                    \* (in await fetch_data), "closing" (leaving the session),
                    \* "written", "raised" or "cancelled"
    page,           \* per stream, fetch_property_data's page
    all_results,    \* per stream, fetch_property_data's all_results
    requested,      \* per stream, the pages requested so far, in order
    received,       \* per stream, the responses received so far, in order
    records,        \* "data" of the post-processing scripts: the loaded export,
                    \* then property_analysis_updated.json
    idx,            \* update_json_file: index of the next record
    cache,          \* update_json_file: rounded coordinates -> neighborhood
    calls,          \* the coordinates geolocator.reverse was called with, in order
    grouped,        \* <<>> until property_analysis_grouped.json is written
    usd,            \* <<>> until property_analysis_usd.json is written
    df,             \* <<>> until the dashboard has loaded its DataFrame
    top_properties, \* <<>> until the dashboard has taken its top list
    stage,          \* post-processing: "idle", "enrich", "group", "convert",
                    \* "load", "top", "shown" or "raised"
    rent_file,      \* residential_rent_data.json in today's data directory
    sale_file,      \* residential_sale_data.json in today's data directory
    rent_data,      \* list loaded from residential_rent_data.json
    sale_data,      \* list loaded from residential_sale_data.json
    building_data,  \* building -> key -> accumulator, in insertion order
    i,              \* index of the next item of rent_data + sale_data
    j,              \* index of the next group visited by the scoring loop
    results,        \* the list the scoring loop appends to
    output,         \* <<>> until property_analysis.json is written, then <<results>>
    pc              \* "gather" (main awaits asyncio.gather), "failed" (main ended
                    \* by an exception of gather), "load" (analyze_property_data
                    \* entered), "run", "done" (file written) or "raised"
                    \* (uncaught exception in the analysis)

analysisVars == <<rent_data, sale_data, building_data, i, j, results, output, pc>>
fileVars == <<rent_file, sale_file>>
fetchVars == <<fpc, page, all_results, requested, received>>
postVars == <<records, idx, cache, calls, grouped, usd, df, top_properties, stage>>
vars == <<fetchVars, fileVars, analysisVars, postVars>>

(***************************************************************************)
(* Bounds of the model.                                                    *)
(***************************************************************************)
MaxRent == 2
MaxSale == 2
MaxRentTie == 3
MaxPages == 2
MaxGroups == 11

\* Values fixed by the code.
Retries == 3       \* get_neighborhood(..., retries=3)
TopCount == 10     \* filtered_df.nlargest(10, 'roi_num')

(***************************************************************************)
(* Generic helpers.                                                        *)
(***************************************************************************)
None == <<>>
Some(v) == <<v>>
IsNone(o) == o = <<>>
Val(o) == o[1]

BSeq(S, n) == UNION {[1..k -> S] : k \in 0..n}

RECURSIVE SumSeq(_)
SumSeq(s) == IF s = <<>> THEN 0 ELSE s[1] + SumSeq(Tail(s))

Abs(n) == IF n < 0 THEN -n ELSE n

RECURSIVE GCD(_, _)
GCD(a, b) == IF b = 0 THEN a ELSE GCD(b, a % b)

\* A rational n/d (d # 0) in lowest terms with a positive denominator.
Rat(n, d) ==
    LET g == GCD(Abs(n), Abs(d))
        s == IF d < 0 THEN -1 ELSE 1
    IN  <<(s * n) \div g, (s * d) \div g>>
RatOfInt(n) == <<n, 1>>
RatDiv(a, b) == Rat(a[1] * b[2], a[2] * b[1])
RatMul(a, b) == Rat(a[1] * b[1], a[2] * b[2])
RatLt(a, b) == a[1] * b[2] < b[1] * a[2]
RatLeq(a, b) == a[1] * b[2] <= b[1] * a[2]
RatIsZero(a) == a[1] = 0

(***************************************************************************)
(* Raw listings.  Only the consumed fields are modelled, plus "id", which   *)
(* stands for the fields the analysis never reads (they still take part in *)
(* the equality of two listings).                                          *)
(*   building.tag       "none"     absent, null, not a dict or empty dict  *)
(*                      "noname"   a dict without "name", or without "en"  *)
(*                      "nullname" a dict whose "name" is null             *)
(*                      "named"    building.name.en is the string .en      *)
(*   _geoloc.tag        "none"     absent, null, empty or not a dict       *)
(*                      "dict"     a dict; lat and lng are optionals       *)
(*   neighborhoods.tag  "none"     absent, not a dict, no names, or "en"   *)
(*                                 is not a list                           *)
(*                      "nullname" a dict whose "name" is null             *)
(*                      "names"    neighborhoods.name.en is the list .en   *)
(***************************************************************************)
NoGeo == [tag |-> "none", lat |-> None, lng |-> None]
Geo(lat, lng) == [tag |-> "dict", lat |-> lat, lng |-> lng]
NoNb == [tag |-> "none", en |-> <<>>]
Nb(names) == [tag |-> "names", en |-> names]
Bld(name) == [tag |-> "named", en |-> name]
BldTag(t) == [tag |-> t, en |-> ""]

Listing(id, bld, bed, bath, size, price, geo, nb) ==
    [id |-> id, building |-> bld, bedrooms |-> bed, bathrooms |-> bath,
     size |-> size, price |-> price, geoloc |-> geo, neighborhoods |-> nb]

\* Python's str order on the neighborhood names that occur, ascending.
NameOrder == <<"Al Barsha", "Downtown", "Marina">>
NameRank(s) == CHOOSE k \in 1..Len(NameOrder) : NameOrder[k] = s
StrLt(a, b) == NameRank(a) < NameRank(b)


(***************************************************************************)
(* Listing files and load_json_file.  A file is missing, holds text that   *)
(* is not a JSON document (a file cut short while being written included), *)
(* or holds a JSON list.                                                   *)
(***************************************************************************)
MissingFile == [kind |-> "missing", data |-> <<>>]
InvalidFile == [kind |-> "invalid", data |-> <<>>]
ListFile(l) == [kind |-> "list", data |-> l]

\* FileNotFoundError and json.JSONDecodeError are answered with [].
load_json_file(file) == IF file.kind = "list" THEN file.data ELSE <<>>

(***************************************************************************)
(* building_data: defaultdict(building -> defaultdict(key -> accumulator)). *)
(* A tuple of [building, types], types a tuple of [key, data]; both in     *)
(* insertion order, which is the order .items() iterates in.               *)
(***************************************************************************)
EmptyData == [rent |-> <<>>, sale |-> <<>>, geoloc_points |-> <<>>, neighborhoods |-> {}]

BuildingIndex(bd, name) ==
    IF \E b \in 1..Len(bd) : bd[b].building = name
    THEN CHOOSE b \in 1..Len(bd) : bd[b].building = name
    ELSE 0

KeyIndex(types, key) ==
    IF \E k \in 1..Len(types) : types[k].key = key
    THEN CHOOSE k \in 1..Len(types) : types[k].key = key
    ELSE 0

\* The read building_data[name][key] of a defaultdict: missing entries are
\* created, the building first and then the key, each at the end of its dict.
Touch(bd, name, key) ==
    LET bd1 == IF BuildingIndex(bd, name) = 0
               THEN Append(bd, [building |-> name, types |-> <<>>])
               ELSE bd
        b == BuildingIndex(bd1, name)
    IN  IF KeyIndex(bd1[b].types, key) = 0
        THEN [bd1 EXCEPT ![b].types = Append(@, [key |-> key, data |-> EmptyData])]
        ELSE bd1

\* building_data[name][key][field].append(v)
AppendTo(bd, name, key, field, v) ==
    LET bd1 == Touch(bd, name, key)
        b == BuildingIndex(bd1, name)
        k == KeyIndex(bd1[b].types, key)
    IN  [bd1 EXCEPT ![b].types[k].data[field] = Append(@, v)]

\* building_data[name][key]['neighborhoods'].update(names)
UpdateNeighborhoods(bd, name, key, names) ==
    LET bd1 == Touch(bd, name, key)
        b == BuildingIndex(bd1, name)
        k == KeyIndex(bd1[b].types, key)
    IN  [bd1 EXCEPT ![b].types[k].data.neighborhoods =
                        @ \cup {names[n] : n \in 1..Len(names)}]

(***************************************************************************)
(* The body of the listing loop.                                           *)
(***************************************************************************)
\* Rounding to the nearest multiple of 200 in place of flooring.
SizeRangeNearest(size) == ((size + 100) \div 200) * 200

\* size_range = (size // 200) * 200; // is floor division, as \div is.
SizeRange(size) == (size \div 200) * 200

\* building.get('name', {}).get('en'): None unless the name has an "en".
BuildingName(item) ==
    IF item.building.tag = "named" THEN Some(item.building.en) ELSE None

\* "building_name is None" in place of "not building_name".
NoBuildingNameOnlyNone(item) == IsNone(BuildingName(item))

\* not building_name: None and the empty string are both falsy.
NoBuildingName(item) ==
    IsNone(BuildingName(item)) \/ Val(BuildingName(item)) = ""

\* all(v is not None for v in [bedrooms, bathrooms, size, price])
AllPresent(item) ==
    /\ ~IsNone(item.bedrooms)
    /\ ~IsNone(item.bathrooms)
    /\ ~IsNone(item.size)
    /\ ~IsNone(item.price)

\* The listing reaches the aggregation block (lines 160-182).
Accepted(item) ==
    /\ item.building.tag = "named"
    /\ ~NoBuildingName(item)
    /\ AllPresent(item)

GroupKeyOf(item) ==
    <<Val(item.bedrooms), Val(item.bathrooms), SizeRange(Val(item.size))>>

\* item in rent_data: list membership, decided by == on the whole record.
InRentData(item, rentData) == \E k \in 1..Len(rentData) : rentData[k] = item

\* geoloc is a dict whose lat and lng are both not None.
HasGeoPoint(item) ==
    /\ item.geoloc.tag = "dict"
    /\ ~IsNone(item.geoloc.lat)
    /\ ~IsNone(item.geoloc.lng)

AddGeoloc(bd, item) ==
    IF HasGeoPoint(item)
    THEN AppendTo(bd, Val(BuildingName(item)), GroupKeyOf(item), "geoloc_points",
                  <<Val(item.geoloc.lat), Val(item.geoloc.lng)>>)
    ELSE bd

AddNeighborhoods(bd, item) ==
    IF item.neighborhoods.tag = "names"
    THEN UpdateNeighborhoods(bd, Val(BuildingName(item)), GroupKeyOf(item),
                             item.neighborhoods.en)
    ELSE bd

AddPrice(bd, item, rentData) ==
    AppendTo(bd, Val(BuildingName(item)), GroupKeyOf(item),
             IF InRentData(item, rentData) THEN "rent" ELSE "sale",
             Val(item.price))

\* One iteration of "for item in rent_data + sale_data".  .raised is TRUE when
\* the iteration ends in an AttributeError (None.get), which nothing catches.
ProcessItem(bd, item, rentData) ==
    IF item.building.tag = "none"
    THEN [bd |-> bd, raised |-> FALSE]
    ELSE IF item.building.tag = "nullname"
    THEN [bd |-> bd, raised |-> TRUE]
    ELSE IF NoBuildingName(item)
    THEN [bd |-> bd, raised |-> FALSE]
    ELSE IF ~AllPresent(item)
    THEN [bd |-> bd, raised |-> FALSE]
    ELSE IF item.neighborhoods.tag = "nullname"
    THEN [bd |-> AddGeoloc(bd, item), raised |-> TRUE]
    ELSE [bd |-> AddPrice(AddNeighborhoods(AddGeoloc(bd, item), item), item, rentData),
          raised |-> FALSE]

(***************************************************************************)
(* The scoring loop (lines 187-224).                                       *)
(***************************************************************************)
\* The groups in the order the two nested .items() loops visit them: building
\* by building, and within a building key by key.
RECURSIVE Groups(_)
Groups(bd) ==
    IF bd = <<>> THEN <<>>
    ELSE [k \in 1..Len(bd[1].types) |->
             [building |-> bd[1].building, key |-> bd[1].types[k].key,
              data |-> bd[1].types[k].data]] \o Groups(Tail(bd))

\* if data['rent'] and data['sale']
Qualifies(data) == data.rent # <<>> /\ data.sale # <<>>

\* sum(xs) / len(xs)
Mean(xs) == Rat(SumSeq(xs), Len(xs))

\* avg_rent / avg_sale raises ZeroDivisionError when avg_sale is 0.
ZeroDivision(data) == RatIsZero(Mean(data.sale))

\* (avg_rent / avg_sale) * 100
Roi(data) == RatMul(RatDiv(Mean(data.rent), Mean(data.sale)), RatOfInt(100))

\* max in place of min.
WeightMax(data) ==
    IF Len(data.rent) <= Len(data.sale) THEN Len(data.sale) ELSE Len(data.rent)

\* min(rent_samples, sale_samples)
Weight(data) ==
    IF Len(data.rent) <= Len(data.sale) THEN Len(data.rent) ELSE Len(data.sale)

\* The first point in place of the mean of the points.
AvgGeolocFirst(points) ==
    IF points = <<>> THEN None
    ELSE Some([lat |-> RatOfInt(points[1][1]), lng |-> RatOfInt(points[1][2])])

\* avg_geoloc: None, or the component-wise mean of the points.
AvgGeoloc(points) ==
    IF points = <<>> THEN None
    ELSE Some([lat |-> Mean([p \in 1..Len(points) |-> points[p][1]]),
               lng |-> Mean([p \in 1..Len(points) |-> points[p][2]])])

\* The names in descending order.
RECURSIVE SortedNamesDescending(_)
SortedNamesDescending(S) ==
    IF S = {} THEN <<>>
    ELSE LET m == CHOOSE x \in S : \A y \in S : ~StrLt(x, y)
         IN  <<m>> \o SortedNamesDescending(S \ {m})

\* sorted(list(names)): ascending, each name once.
RECURSIVE SortedNames(_)
SortedNames(S) ==
    IF S = {} THEN <<>>
    ELSE LET m == CHOOSE x \in S : \A y \in S : ~StrLt(y, x)
         IN  <<m>> \o SortedNames(S \ {m})

\* str(n) of a Python int, as a tuple of characters.
Digit(d) ==
    CASE d = 0 -> "0" [] d = 1 -> "1" [] d = 2 -> "2" [] d = 3 -> "3" [] d = 4 -> "4"
      [] d = 5 -> "5" [] d = 6 -> "6" [] d = 7 -> "7" [] d = 8 -> "8" [] d = 9 -> "9"

RECURSIVE NatToStr(_)
NatToStr(n) ==
    IF n < 10 THEN <<Digit(n)>> ELSE NatToStr(n \div 10) \o <<Digit(n % 10)>>

IntToStr(n) == IF n < 0 THEN <<"-">> \o NatToStr(-n) ELSE NatToStr(n)

\* f"{prop_type[2]}-{prop_type[2]+199} sqft"
SizeRangeStr(bucket) ==
    IntToStr(bucket) \o <<"-">> \o IntToStr(bucket + 199) \o <<" ", "s", "q", "f", "t">>

\* The record appended to results for a qualifying group (avg_sale # 0).
ScoreGroup(g) ==
    [building |-> g.building,
     bedrooms |-> g.key[1],
     bathrooms |-> g.key[2],
     size_range |-> SizeRangeStr(g.key[3]),
     avg_rent |-> Mean(g.data.rent),
     avg_sale |-> Mean(g.data.sale),
     roi |-> Roi(g.data),
     rent_samples |-> Len(g.data.rent),
     sale_samples |-> Len(g.data.sale),
     weight |-> Weight(g.data),
     weighted_roi |-> RatMul(Roi(g.data), RatOfInt(Weight(g.data))),
     geolocation |-> AvgGeoloc(g.data.geoloc_points),
     neighborhoods |-> SortedNames(g.data.neighborhoods)]

\* The record of a qualifying group appended twice.
ScoreStepTwice(rs, g) ==
    IF ~Qualifies(g.data)
    THEN [results |-> rs, raised |-> FALSE]
    ELSE IF ZeroDivision(g.data)
    THEN [results |-> rs, raised |-> TRUE]
    ELSE [results |-> Append(Append(rs, ScoreGroup(g)), ScoreGroup(g)), raised |-> FALSE]

\* One iteration of the scoring loop on group g.  .raised is TRUE when it ends
\* in the ZeroDivisionError of avg_rent / avg_sale.
ScoreStep(rs, g) ==
    IF ~Qualifies(g.data)
    THEN [results |-> rs, raised |-> FALSE]
    ELSE IF ZeroDivision(g.data)
    THEN [results |-> rs, raised |-> TRUE]
    ELSE [results |-> Append(rs, ScoreGroup(g)), raised |-> FALSE]

(***************************************************************************)
(* results.sort(key=lambda x: x['weighted_roi'], reverse=True): a stable    *)
(* sort, also with reverse=True (equal keys keep their original order).     *)
(***************************************************************************)
\* The sort without reverse=True: r goes before the first greater key.
InsertAsc(sorted, r) ==
    LET before == {n \in 1..Len(sorted) : RatLt(r.weighted_roi, sorted[n].weighted_roi)}
        at == IF before = {} THEN Len(sorted) + 1
              ELSE CHOOSE n \in before : \A m \in before : n <= m
    IN  SubSeq(sorted, 1, at - 1) \o <<r>> \o SubSeq(sorted, at, Len(sorted))

\* An unstable descending sort: r goes before the elements with an equal key.
InsertDescBeforeEqual(sorted, r) ==
    LET before == {n \in 1..Len(sorted) : RatLeq(sorted[n].weighted_roi, r.weighted_roi)}
        at == IF before = {} THEN Len(sorted) + 1
              ELSE CHOOSE n \in before : \A m \in before : n <= m
    IN  SubSeq(sorted, 1, at - 1) \o <<r>> \o SubSeq(sorted, at, Len(sorted))

\* r goes before the first element whose key is smaller than its own.
InsertDesc(sorted, r) ==
    LET before == {n \in 1..Len(sorted) : RatLt(sorted[n].weighted_roi, r.weighted_roi)}
        at == IF before = {} THEN Len(sorted) + 1
              ELSE CHOOSE n \in before : \A m \in before : n <= m
    IN  SubSeq(sorted, 1, at - 1) \o <<r>> \o SubSeq(sorted, at, Len(sorted))

RECURSIVE SortFrom(_, _)
SortFrom(sorted, rest) ==
    IF rest = <<>> THEN sorted
    ELSE SortFrom(InsertDesc(sorted, rest[1]), Tail(rest))

\* The sort left out: the results stay in the order they were appended in.
Unsorted(rs) == rs

SortResults(rs) == SortFrom(<<>>, rs)

(***************************************************************************)
(* analyze_property_data as a state machine.                               *)
(***************************************************************************)
Items == rent_data \o sale_data

\* rent_data = load_json_file(...); sale_data = load_json_file(...)
LoadFiles ==
    /\ pc = "load"
    /\ rent_data' = load_json_file(rent_file)
    /\ sale_data' = load_json_file(sale_file)
    /\ pc' = "run"
    /\ UNCHANGED <<building_data, i, j, results, output>>
    /\ UNCHANGED <<fetchVars, fileVars, postVars>>

\* for item in rent_data + sale_data: one iteration
ProcessNext ==
    /\ pc = "run"
    /\ i <= Len(Items)
    /\ LET step == ProcessItem(building_data, Items[i], rent_data)
       IN  /\ building_data' = step.bd
           /\ pc' = IF step.raised THEN "raised" ELSE "run"
           /\ i' = IF step.raised THEN i ELSE i + 1
    /\ UNCHANGED <<rent_data, sale_data, j, results, output>>
    /\ UNCHANGED <<fetchVars, fileVars, postVars>>

\* one iteration of the scoring loop over building_data
ScoreNext ==
    /\ pc = "run"
    /\ i > Len(Items)
    /\ j <= Len(Groups(building_data))
    /\ LET step == ScoreStep(results, Groups(building_data)[j])
       IN  /\ results' = step.results
           /\ pc' = IF step.raised THEN "raised" ELSE "run"
    /\ j' = j + 1
    /\ UNCHANGED <<rent_data, sale_data, building_data, i, output>>
    /\ UNCHANGED <<fetchVars, fileVars, postVars>>

\* results.sort(...) and json.dump(results, f)
SortAndSave ==
    /\ pc = "run"
    /\ i > Len(Items)
    /\ j > Len(Groups(building_data))
    /\ results' = SortResults(results)
    /\ output' = Some(SortResults(results))
    /\ pc' = "done"
    /\ UNCHANGED <<rent_data, sale_data, building_data, i, j>>
    /\ UNCHANGED <<fetchVars, fileVars, postVars>>

Next == ProcessNext \/ ScoreNext \/ SortAndSave

\* The analysis from its first statement on.
NextLoad == LoadFiles \/ ProcessNext \/ ScoreNext \/ SortAndSave

(***************************************************************************)
(* analyze_property_data as a function of the two loaded lists: the value  *)
(* written to property_analysis.json, or None when the call raises.        *)
(***************************************************************************)
RECURSIVE RunLoop(_, _, _)
RunLoop(bd, items, rentData) ==
    IF items = <<>> THEN [bd |-> bd, raised |-> FALSE]
    ELSE LET step == ProcessItem(bd, items[1], rentData)
         IN  IF step.raised THEN step
             ELSE RunLoop(step.bd, Tail(items), rentData)

RECURSIVE ScoreAll(_, _)
ScoreAll(rs, gs) ==
    IF gs = <<>> THEN [results |-> rs, raised |-> FALSE]
    ELSE LET step == ScoreStep(rs, gs[1])
         IN  IF step.raised THEN step
             ELSE ScoreAll(step.results, Tail(gs))

Analyze(rents, sales) ==
    LET loop == RunLoop(<<>>, rents \o sales, rents)
        scored == ScoreAll(<<>>, Groups(loop.bd))
    IN  IF loop.raised THEN None
        ELSE IF scored.raised THEN None
        ELSE Some(SortResults(scored.results))

\* The state after the two load_json_file calls, for given file contents.
\* No fetch coroutine exists: the analysis is run on files that are there.
NoFetch ==
    /\ fpc = [s \in {"rent", "sale"} |-> "written"]
    /\ page = [s \in {"rent", "sale"} |-> 0]
    /\ all_results = [s \in {"rent", "sale"} |-> <<>>]
    /\ requested = [s \in {"rent", "sale"} |-> <<>>]
    /\ received = [s \in {"rent", "sale"} |-> <<>>]

\* No post-processing script has been run.
NoPost ==
    /\ records = <<>>
    /\ idx = 1
    /\ cache = <<>>
    /\ calls = <<>>
    /\ grouped = None
    /\ usd = None
    /\ df = None
    /\ top_properties = None
    /\ stage = "idle"

InitWith(rents, sales) ==
    /\ NoFetch
    /\ NoPost
    /\ rent_data \in rents
    /\ sale_data \in sales
    /\ rent_file = ListFile(rent_data)
    /\ sale_file = ListFile(sale_data)
    /\ building_data = <<>>
    /\ i = 1
    /\ j = 1
    /\ results = <<>>
    /\ output = None
    /\ pc = "run"

(***************************************************************************)
(* File contents the specifications below start from.  A well-formed       *)
(* listing: id, building, bedrooms, bathrooms, size, price.                *)
(***************************************************************************)
Plain(id, name, size, price) ==
    Listing(id, Bld(name), Some(1), Some(1), Some(size), Some(price), NoGeo, NoNb)

Located(id, name, size, price, lat, lng, names) ==
    Listing(id, Bld(name), Some(1), Some(1), Some(size), Some(price),
            Geo(Some(lat), Some(lng)), Nb(names))

\* Spec: two buildings, two size buckets, a sale listing priced 0, and a sale
\* listing that is value-equal to a rent listing (the first of RentMain).
RentMain ==
    { Located(1, "A", 650, 1000, 250, 550, <<"Marina">>),
      Plain(2, "A", 799, 1200),
      Plain(3, "A", 800, 1200),
      Plain(4, "B", 650, 1000) }

SaleMain ==
    { Located(5, "A", 650, 100000, 252, 552, <<"Downtown", "Marina">>),
      Plain(6, "A", 700, 120000),
      Plain(7, "A", 800, 100000),
      Plain(8, "A", 650, 0),
      Plain(9, "B", 650, 100000),
      Located(1, "A", 650, 1000, 250, 550, <<"Marina">>) }

Init == InitWith(BSeq(RentMain, MaxRent), BSeq(SaleMain, MaxSale))
Spec == Init /\ [][Next]_vars

\* SpecTie: two buildings whose listings can interleave, with equal ROI in
\* three of the groups.
RentTie ==
    { Plain(1, "A", 650, 1000),
      Plain(2, "B", 650, 1000),
      Plain(3, "A", 800, 1000) }

SaleTie ==
    { Plain(4, "A", 650, 100000),
      Plain(5, "B", 650, 100000),
      Plain(6, "A", 800, 100000),
      Plain(7, "A", 800, 50000) }

\* SpecPerm: groups with pairwise different ROI, fed by listings that differ
\* in price, geolocation and neighborhood names.
RentPerm ==
    { Located(1, "A", 650, 1000, 250, 550, <<"Marina">>),
      Located(2, "A", 799, 1200, 252, 552, <<"Downtown">>),
      Plain(3, "B", 650, 1500) }

SalePerm ==
    { Located(4, "A", 650, 100000, 254, 551, <<"Al Barsha">>),
      Plain(5, "B", 650, 100000),
      Plain(6, "A", 700, 120000) }

InitPerm == InitWith(BSeq(RentPerm, MaxRent), BSeq(SalePerm, MaxSale))
SpecPerm == InitPerm /\ [][Next]_vars

\* SpecSize: sizes on both sides of the bucket boundaries, zero and negative
\* sizes included; every listing has a price of its own.
RentSize ==
    { Plain(1, "A", -50, 1000),
      Plain(2, "A", 199, 2000),
      Plain(3, "A", 650, 3000),
      Plain(4, "A", 799, 4000) }

SaleSize ==
    { Plain(5, "A", -1, 100000),
      Plain(6, "A", 200, 200000),
      Plain(7, "A", 700, 300000),
      Plain(8, "A", 800, 400000) }

InitSize == InitWith(BSeq(RentSize, MaxRent), BSeq(SaleSize, MaxSale))
SpecSize == InitSize /\ [][Next]_vars

\* SpecDrop: listings that lack the building name or one of the four required
\* fields, each still carrying a geolocation and neighborhood names.
Malformed(id, bld, bed, bath, size, price) ==
    Listing(id, bld, bed, bath, size, price,
            Geo(Some(251), Some(551)), Nb(<<"Downtown">>))

RentDrop ==
    { Located(1, "A", 650, 1000, 250, 550, <<"Marina">>),
      Malformed(2, BldTag("none"), Some(1), Some(1), Some(650), Some(1000)),
      Malformed(3, Bld(""), Some(1), Some(1), Some(650), Some(1000)),
      Malformed(4, Bld("A"), None, Some(1), Some(650), Some(1000)),
      Malformed(5, Bld("A"), Some(1), Some(1), Some(650), None) }

SaleDrop ==
    { Located(6, "A", 650, 100000, 252, 552, <<"Marina">>),
      Malformed(7, BldTag("noname"), Some(1), Some(1), Some(650), Some(100000)),
      Malformed(8, Bld("A"), Some(1), None, Some(650), Some(100000)),
      Malformed(9, Bld("A"), Some(1), Some(1), None, Some(100000)),
      Malformed(10, BldTag("nullname"), Some(1), Some(1), Some(650), Some(100000)) }

InitDrop == InitWith(BSeq(RentDrop, MaxRent), BSeq(SaleDrop, MaxSale))
SpecDrop == InitDrop /\ [][Next]_vars

InitTie == InitWith(BSeq(RentTie, MaxRentTie), BSeq(SaleTie, MaxSale))
SpecTie == InitTie /\ [][Next]_vars

\* SpecNull: listings whose building.name or neighborhoods.name is null, or
\* whose _geoloc lacks lat or lng, next to well-formed ones.
RentNull ==
    { Located(1, "A", 650, 1000, 250, 550, <<"Marina">>),
      Listing(2, Bld("A"), Some(1), Some(1), Some(650), Some(1200),
              Geo(Some(300), None), Nb(<<"Downtown">>)),
      Listing(3, Bld("A"), Some(1), Some(1), Some(650), Some(1000),
              Geo(Some(252), Some(552)), [tag |-> "nullname", en |-> <<>>]) }

SaleNull ==
    { Located(4, "A", 650, 100000, 252, 552, <<"Al Barsha", "Marina">>),
      Listing(5, BldTag("nullname"), Some(1), Some(1), Some(650), Some(100000),
              Geo(Some(251), Some(551)), Nb(<<"Downtown">>)),
      Listing(6, Bld("A"), Some(1), Some(1), Some(650), Some(120000),
              Geo(None, Some(600)), NoNb) }

InitNull == InitWith(BSeq(RentNull, MaxRent), BSeq(SaleNull, MaxSale))
SpecNull == InitNull /\ [][Next]_vars

\* SpecLoad: the analysis before its two load_json_file calls, each file
\* missing, not valid JSON, or a list of the listings of SpecNull.
Files(listings, n) == {MissingFile, InvalidFile} \cup {ListFile(l) : l \in BSeq(listings, n)}

InitLoad ==
    /\ NoFetch
    /\ NoPost
    /\ rent_file \in Files(RentNull, MaxRent)
    /\ sale_file \in Files(SaleNull, MaxSale)
    /\ rent_data = <<>>
    /\ sale_data = <<>>
    /\ building_data = <<>>
    /\ i = 1
    /\ j = 1
    /\ results = <<>>
    /\ output = None
    /\ pc = "load"

SpecLoad == InitLoad /\ [][NextLoad]_vars

(***************************************************************************)
(* main: the two fetch coroutines run by asyncio.gather, then the          *)
(* analysis.  A coroutine runs without interruption between two awaits, so *)
(* one action is the code from one await to the next.  The await points    *)
(* are "await fetch_data" (one per page) and the exit of the               *)
(* "async with aiohttp.ClientSession()" block; from there to the end of    *)
(* fetch_residential_rent / fetch_residential_sale there is none.  The     *)
(* data directory is taken to be the same during the whole run.            *)
(***************************************************************************)
Streams == {"rent", "sale"}

\* What one page request can come back with.
\*   "hits"      a response whose hits list is .hits (not empty)
\*   "nopages"   the same, but without the nbPages the progress line prints
\*   "empty"     a response whose hits list is empty
\*   "error"     the request raised, or the response has no results[0].hits
Response(kind, hits) == [kind |-> kind, hits |-> hits]

\* The hits lists a page of each stream can hold.
PageHits(s) ==
    IF s = "rent"
    THEN { <<Plain(1, "A", 650, 1000)>>,
           <<Plain(2, "A", 700, 1200), Plain(3, "B", 650, 1000)>> }
    ELSE { <<Plain(4, "A", 650, 100000)>>,
           <<Listing(5, BldTag("nullname"), Some(1), Some(1), Some(650), Some(100000),
                     NoGeo, NoNb)>> }

\* page += 1 left out.
NextPageSame(p) == p

\* page += 1
NextPage(p) == p + 1

\* First iteration of "while True": the request for page 0 is sent and the
\* coroutine waits in "await fetch_data".
RequestFirstPage(s) ==
    /\ pc = "gather"
    /\ fpc[s] = "start"
    /\ requested' = [requested EXCEPT ![s] = Append(@, page[s])]
    /\ fpc' = [fpc EXCEPT ![s] = "await"]
    /\ UNCHANGED <<page, all_results, received, fileVars, analysisVars, postVars>>

\* A page with hits: extend, page += 1, the progress line, and the next
\* iteration up to its "await fetch_data".
ReceiveHits(s) ==
    /\ pc = "gather"
    /\ fpc[s] = "await"
    /\ page[s] < MaxPages
    /\ \E hits \in PageHits(s) :
          /\ received' = [received EXCEPT ![s] = Append(@, Response("hits", hits))]
          /\ all_results' = [all_results EXCEPT ![s] = @ \o hits]
    /\ page' = [page EXCEPT ![s] = NextPage(@)]
    /\ requested' = [requested EXCEPT ![s] = Append(@, NextPage(page[s]))]
    /\ UNCHANGED <<fpc, fileVars, analysisVars, postVars>>

\* A page with hits but no nbPages: extend, page += 1, then the progress
\* line raises KeyError, which the except clause answers with break.
ReceiveHitsNoNbPages(s) ==
    /\ pc = "gather"
    /\ fpc[s] = "await"
    /\ page[s] < MaxPages
    /\ \E hits \in PageHits(s) :
          /\ received' = [received EXCEPT ![s] = Append(@, Response("nopages", hits))]
          /\ all_results' = [all_results EXCEPT ![s] = @ \o hits]
    /\ page' = [page EXCEPT ![s] = NextPage(@)]
    /\ fpc' = [fpc EXCEPT ![s] = "closing"]
    /\ UNCHANGED <<requested, fileVars, analysisVars, postVars>>

\* if not results: break
ReceiveEmpty(s) ==
    /\ pc = "gather"
    /\ fpc[s] = "await"
    /\ received' = [received EXCEPT ![s] = Append(@, Response("empty", <<>>))]
    /\ fpc' = [fpc EXCEPT ![s] = "closing"]
    /\ UNCHANGED <<page, all_results, requested, fileVars, analysisVars, postVars>>

\* except Exception as e: print, break
ReceiveError(s) ==
    /\ pc = "gather"
    /\ fpc[s] = "await"
    /\ received' = [received EXCEPT ![s] = Append(@, Response("error", <<>>))]
    /\ fpc' = [fpc EXCEPT ![s] = "closing"]
    /\ UNCHANGED <<page, all_results, requested, fileVars, analysisVars, postVars>>

\* The counting loop of fetch_residential_rent / _sale raises on a hit
\* whose building.name is null (building.get('name', {}).get('en')).
CountingRaises(hits) == \E k \in 1..Len(hits) : hits[k].building.tag = "nullname"

WriteListingFile(s, file) ==
    /\ rent_file' = IF s = "rent" THEN file ELSE rent_file
    /\ sale_file' = IF s = "sale" THEN file ELSE sale_file

ListingFile(s) == IF s = "rent" THEN rent_file ELSE sale_file

\* fetch_property_data returns; the building counts are taken and the
\* listing file and the frequencies file are written.
SaveListings(s) ==
    /\ pc = "gather"
    /\ fpc[s] = "closing"
    /\ ~CountingRaises(all_results[s])
    /\ WriteListingFile(s, ListFile(all_results[s]))
    /\ fpc' = [fpc EXCEPT ![s] = "written"]
    /\ UNCHANGED <<page, all_results, requested, received, analysisVars, postVars>>

\* fetch_property_data returns and the counting loop raises AttributeError:
\* no file is written.
CountRaises(s) ==
    /\ pc = "gather"
    /\ fpc[s] = "closing"
    /\ CountingRaises(all_results[s])
    /\ fpc' = [fpc EXCEPT ![s] = "raised"]
    /\ UNCHANGED <<page, all_results, requested, received, fileVars, analysisVars, postVars>>

\* Writing fails with an OSError: while the listing file is being written,
\* which leaves it cut short, or while the frequencies file is.
SaveFails(s) ==
    /\ pc = "gather"
    /\ fpc[s] = "closing"
    /\ ~CountingRaises(all_results[s])
    /\ \E file \in {InvalidFile, ListFile(all_results[s])} : WriteListingFile(s, file)
    /\ fpc' = [fpc EXCEPT ![s] = "raised"]
    /\ UNCHANGED <<page, all_results, requested, received, analysisVars, postVars>>

\* gather resumes main when one coroutine alone has finished.
GatherCompleteAny == \E s \in Streams : fpc[s] = "written"

\* await asyncio.gather(...): both coroutines have finished.
GatherComplete == \A s \in Streams : fpc[s] = "written"

\* main goes on to analyze_property_data().
GatherReturns ==
    /\ pc = "gather"
    /\ GatherComplete
    /\ pc' = "load"
    /\ UNCHANGED <<fetchVars, fileVars, rent_data, sale_data, building_data, i, j,
                   results, output, postVars>>

\* gather passes the first exception of a coroutine on to main, which ends.
GatherRaises ==
    /\ pc = "gather"
    /\ \E s \in Streams : fpc[s] = "raised"
    /\ pc' = "failed"
    /\ UNCHANGED <<fetchVars, fileVars, rent_data, sale_data, building_data, i, j,
                   results, output, postVars>>

\* asyncio.run cancels the coroutine that is still pending when main ends.
CancelPending(s) ==
    /\ pc = "failed"
    /\ fpc[s] \in {"start", "await", "closing"}
    /\ fpc' = [fpc EXCEPT ![s] = "cancelled"]
    /\ UNCHANGED <<page, all_results, requested, received, fileVars, analysisVars, postVars>>

NextMain ==
    \/ \E s \in Streams : RequestFirstPage(s)
    \/ \E s \in Streams : ReceiveHits(s)
    \/ \E s \in Streams : ReceiveHitsNoNbPages(s)
    \/ \E s \in Streams : ReceiveEmpty(s)
    \/ \E s \in Streams : ReceiveError(s)
    \/ \E s \in Streams : SaveListings(s)
    \/ \E s \in Streams : CountRaises(s)
    \/ \E s \in Streams : SaveFails(s)
    \/ \E s \in Streams : CancelPending(s)
    \/ GatherReturns
    \/ GatherRaises
    \/ LoadFiles
    \/ ProcessNext
    \/ ScoreNext
    \/ SortAndSave

\* asyncio.run(main()): no listing file of today exists yet.
InitMain ==
    /\ NoPost
    /\ fpc = [s \in Streams |-> "start"]
    /\ page = [s \in Streams |-> 0]
    /\ all_results = [s \in Streams |-> <<>>]
    /\ requested = [s \in Streams |-> <<>>]
    /\ received = [s \in Streams |-> <<>>]
    /\ rent_file = MissingFile
    /\ sale_file = MissingFile
    /\ rent_data = <<>>
    /\ sale_data = <<>>
    /\ building_data = <<>>
    /\ i = 1
    /\ j = 1
    /\ results = <<>>
    /\ output = None
    /\ pc = "gather"

SpecMain == InitMain /\ [][NextMain]_vars

(***************************************************************************)
(* The post-processing scripts, run one after the other on the export:     *)
(*   fix_location.py   update_json_file: property_analysis.json ->         *)
(*                     property_analysis_updated.json                      *)
(*   fix_grouping.py   group_variants: -> property_analysis_grouped.json   *)
(*   dollar.py         convert_values: -> property_analysis_usd.json       *)
(*   doebi123.py       load_data, roi_num and the top list                 *)
(* Coordinates are rationals in tenths of a degree; a cache key holds the  *)
(* two coordinates rounded to 5 decimals, in units of 0.00001 degree.      *)
(***************************************************************************)
\* Rounding of n/d (d > 0) to the nearest integer, halves to the even one.
RoundHalfEven(n, d) ==
    LET q == n \div d
        r == n % d
    IN  IF 2 * r < d THEN q
        ELSE IF 2 * r > d THEN q + 1
        ELSE IF q % 2 = 0 THEN q ELSE q + 1

\* round(x, 5) of a coordinate x given in tenths of a degree.
Round5(x) == RoundHalfEven(x[1] * 10000, x[2])

CacheIndex(c, key) ==
    IF \E k \in 1..Len(c) : c[k].key = key
    THEN CHOOSE k \in 1..Len(c) : c[k].key = key
    ELSE 0

\* cache[key] = value, left out when value is None.
CachePutSkipsNone(c, key, value) ==
    IF value = None
    THEN c
    ELSE IF CacheIndex(c, key) = 0
    THEN Append(c, [key |-> key, value |-> value])
    ELSE [c EXCEPT ![CacheIndex(c, key)].value = value]

\* cache[key] = value
CachePut(c, key, value) ==
    IF CacheIndex(c, key) = 0
    THEN Append(c, [key |-> key, value |-> value])
    ELSE [c EXCEPT ![CacheIndex(c, key)].value = value]

\* What one call of geolocator.reverse can end in.
\*   "failed"  GeocoderTimedOut or GeocoderServiceError is raised
\*   "none"    it returns None
\*   "found"   it returns a location; .neighborhood is the first truthy one
\*             of address.neighbourhood, suburb, quarter, city_district, or
\*             None when the address has none of them
Outcome(kind, neighborhood) == [kind |-> kind, neighborhood |-> neighborhood]

FinalOutcomes ==
    {Outcome("none", None), Outcome("found", None), Outcome("found", Some("Marina"))}

Failures(k) == [a \in 1..k |-> Outcome("failed", None)]

\* The answers the geolocator would give to the successive attempts of one
\* get_neighborhood call: some failures, then an answer, or failures only
\* (one more than the code ever asks for).
AttemptSeqs ==
    {Failures(k) \o <<f>> : k \in 0..(Retries + 1), f \in FinalOutcomes}
        \cup {Failures(Retries + 2)}

\* get_neighborhood retrying while retries >= 0.
RECURSIVE get_neighborhoodRetryAtZero(_, _, _, _, _)
get_neighborhoodRetryAtZero(lat, lon, c, outcomes, retries) ==
    LET key == <<Round5(lat), Round5(lon)>>
        call == <<<<lat, lon>>>>
    IN  IF CacheIndex(c, key) # 0
        THEN [value |-> c[CacheIndex(c, key)].value, cache |-> c, calls |-> <<>>]
        ELSE IF outcomes[1].kind = "none"
        THEN [value |-> None, cache |-> CachePut(c, key, None), calls |-> call]
        ELSE IF outcomes[1].kind = "found"
        THEN [value |-> outcomes[1].neighborhood,
              cache |-> CachePut(c, key, outcomes[1].neighborhood), calls |-> call]
        ELSE IF retries >= 0
        THEN LET again == get_neighborhoodRetryAtZero(lat, lon, c, Tail(outcomes),
                                                      retries - 1)
             IN  [again EXCEPT !.calls = call \o @]
        ELSE [value |-> None, cache |-> CachePut(c, key, None), calls |-> call]

\* get_neighborhood(lat, lon, geolocator, cache, retries); outcomes are the
\* answers of the geolocator to the attempts still to come.  The result holds
\* the value returned, the cache afterwards and the calls made.
RECURSIVE get_neighborhood(_, _, _, _, _)
get_neighborhood(lat, lon, c, outcomes, retries) ==
    LET key == <<Round5(lat), Round5(lon)>>
        call == <<<<lat, lon>>>>
    IN  IF CacheIndex(c, key) # 0
        THEN [value |-> c[CacheIndex(c, key)].value, cache |-> c, calls |-> <<>>]
        ELSE IF outcomes[1].kind = "none"
        THEN [value |-> None, cache |-> CachePut(c, key, None), calls |-> call]
        ELSE IF outcomes[1].kind = "found"
        THEN [value |-> outcomes[1].neighborhood,
              cache |-> CachePut(c, key, outcomes[1].neighborhood), calls |-> call]
        ELSE IF retries > 0
        THEN LET again == get_neighborhood(lat, lon, c, Tail(outcomes), retries - 1)
             IN  [again EXCEPT !.calls = call \o @]
        ELSE [value |-> None, cache |-> CachePut(c, key, None), calls |-> call]

\* One iteration of "for idx, record in enumerate(data)".  A record of the
\* export has a geolocation that is None or holds both lat and lng;
\* record.get("geolocation", {}) is None for the former, and None.get raises
\* AttributeError, which nothing catches.
EnrichNext ==
    /\ stage = "enrich"
    /\ idx <= Len(records)
    /\ IF records[idx].geolocation = None
       THEN /\ stage' = "raised"
            /\ UNCHANGED <<records, idx, cache, calls>>
       ELSE \E outcomes \in AttemptSeqs :
                LET original_lat == Val(records[idx].geolocation).lat
                    original_lng == Val(records[idx].geolocation).lng
                    correct_lat == original_lng
                    correct_lng == original_lat
                    got == get_neighborhood(correct_lat, correct_lng, cache, outcomes, Retries)
                IN  /\ records' = [records EXCEPT ![idx].neighborhoods =
                                      IF got.value # None THEN <<Val(got.value)>> ELSE <<>>]
                    /\ cache' = got.cache
                    /\ calls' = calls \o got.calls
                    /\ idx' = idx + 1
                    /\ stage' = "enrich"
    /\ UNCHANGED <<grouped, usd, df, top_properties, fetchVars, fileVars, analysisVars>>

\* json.dump(data, f): property_analysis_updated.json is written.
SaveUpdated ==
    /\ stage = "enrich"
    /\ idx > Len(records)
    /\ stage' = "group"
    /\ UNCHANGED <<records, idx, cache, calls, grouped, usd, df, top_properties,
                   fetchVars, fileVars, analysisVars>>

\* int(s) of a text of digits.
IsDigit(c) == c \in {"0", "1", "2", "3", "4", "5", "6", "7", "8", "9"}
DigitValue(c) == CHOOSE d \in 0..9 : Digit(d) = c

RECURSIVE StrToNat(_)
StrToNat(str) ==
    IF Len(str) = 1 THEN DigitValue(str[1])
    ELSE 10 * StrToNat(SubSeq(str, 1, Len(str) - 1)) + DigitValue(str[Len(str)])

\* The end of the longest run of digits that starts at position a.
RECURSIVE DigitRunEnd(_, _)
DigitRunEnd(str, a) ==
    IF a < Len(str) /\ IsDigit(str[a + 1]) THEN DigitRunEnd(str, a + 1) ELSE a

\* (\d+)-(\d+) matches at position a.
MatchesAt(str, a) ==
    /\ IsDigit(str[a])
    /\ DigitRunEnd(str, a) + 2 <= Len(str)
    /\ str[DigitRunEnd(str, a) + 1] = "-"
    /\ IsDigit(str[DigitRunEnd(str, a) + 2])

\* re.search(r"(\d+)-(\d+)", s): the leftmost match; (None, None) without one.
parse_size_range(str) ==
    IF \E a \in 1..Len(str) : MatchesAt(str, a)
    THEN LET a == CHOOSE x \in 1..Len(str) :
                     MatchesAt(str, x) /\ \A y \in 1..(x - 1) : ~MatchesAt(str, y)
             b == DigitRunEnd(str, a)
             c == DigitRunEnd(str, b + 2)
         IN  <<Some(StrToNat(SubSeq(str, a, b))), Some(StrToNat(SubSeq(str, b + 2, c)))>>
    ELSE <<None, None>>

\* The variant entry built from a record.
Variant(record) ==
    [bedrooms |-> record.bedrooms,
     bathrooms |-> record.bathrooms,
     size_range |-> record.size_range,
     avg_rent |-> record.avg_rent,
     avg_sale |-> record.avg_sale,
     roi |-> record.roi,
     rent_samples |-> record.rent_samples,
     sale_samples |-> record.sale_samples,
     weight |-> record.weight,
     weighted_roi |-> record.weighted_roi,
     geolocation |-> record.geolocation,
     min_sqft |-> parse_size_range(record.size_range)[1],
     max_sqft |-> parse_size_range(record.size_range)[2]]

GroupIndex(gs, building) ==
    IF \E k \in 1..Len(gs) : gs[k].building = building
    THEN CHOOSE k \in 1..Len(gs) : gs[k].building = building
    ELSE 0

\* One iteration of the loop of group_variants where every record of a
\* building overwrites the neighborhood of its entry.
AddVariantLastNeighborhood(gs, record) ==
    IF record.building = "" THEN gs
    ELSE LET nb == IF record.neighborhoods # <<>>
                   THEN <<record.neighborhoods[1]>> ELSE <<>>
             gs1 == IF GroupIndex(gs, record.building) = 0
                    THEN Append(gs, [building |-> record.building,
                                     neighborhood |-> nb, variants |-> <<>>])
                    ELSE gs
         IN  [gs1 EXCEPT ![GroupIndex(gs1, record.building)].variants =
                             Append(@, Variant(record)),
                         ![GroupIndex(gs1, record.building)].neighborhood = nb]

\* One iteration of the loop of group_variants.  The neighborhood of a new
\* entry is nbh[0] for a list with elements (<<name>> here) and nbh itself,
\* the empty list (<<>> here), otherwise.
AddVariant(gs, record) ==
    IF record.building = "" THEN gs
    ELSE LET gs1 == IF GroupIndex(gs, record.building) = 0
                    THEN Append(gs, [building |-> record.building,
                                     neighborhood |->
                                         IF record.neighborhoods # <<>>
                                         THEN <<record.neighborhoods[1]>> ELSE <<>>,
                                     variants |-> <<>>])
                    ELSE gs
         IN  [gs1 EXCEPT ![GroupIndex(gs1, record.building)].variants =
                             Append(@, Variant(record))]

RECURSIVE GroupFrom(_, _)
GroupFrom(gs, rest) ==
    IF rest = <<>> THEN gs ELSE GroupFrom(AddVariant(gs, rest[1]), Tail(rest))

\* list(grouped.values()): the entries in the order they were created in.
group_variants(rs) == GroupFrom(<<>>, rs)

\* fix_grouping.py: property_analysis_grouped.json is written.
GroupVariants ==
    /\ stage = "group"
    /\ grouped' = Some(group_variants(records))
    /\ stage' = "convert"
    /\ UNCHANGED <<records, idx, cache, calls, usd, df, top_properties,
                   fetchVars, fileVars, analysisVars>>

\* record.get('avg_sale', 0) * CONVERSION_RATE on an entry of the grouped
\* file, which has no avg_sale and no avg_rent of its own: 0 * 0.27.
convert_values(entry) ==
    [building |-> entry.building, neighborhood |-> entry.neighborhood,
     variants |-> entry.variants, avg_sale_usd |-> <<0, 1>>, avg_rent_usd |-> <<0, 1>>]

\* dollar.py: property_analysis_usd.json is written.
ConvertValues ==
    /\ stage = "convert"
    /\ usd' = Some([k \in 1..Len(Val(grouped)) |-> convert_values(Val(grouped)[k])])
    /\ stage' = "load"
    /\ UNCHANGED <<records, idx, cache, calls, grouped, df, top_properties,
                   fetchVars, fileVars, analysisVars>>

\* weighted_roi taken for roi_num.
RoiNumWeighted(variant) == variant.weighted_roi

\* df['roi_num'] = pd.to_numeric(df['roi'], errors='coerce'): roi is a number.
RoiNum(variant) == variant.roi

\* The row of a variant: its fields, with the building and the neighborhood
\* of its entry (an empty list is read as None, <<>> here) and roi_num.
Row(entry, variant) ==
    [building |-> entry.building,
     neighborhood |-> entry.neighborhood,
     bedrooms |-> variant.bedrooms,
     bathrooms |-> variant.bathrooms,
     size_range |-> variant.size_range,
     avg_rent |-> variant.avg_rent,
     avg_sale |-> variant.avg_sale,
     roi |-> variant.roi,
     rent_samples |-> variant.rent_samples,
     sale_samples |-> variant.sale_samples,
     weight |-> variant.weight,
     weighted_roi |-> variant.weighted_roi,
     geolocation |-> variant.geolocation,
     min_sqft |-> variant.min_sqft,
     max_sqft |-> variant.max_sqft,
     roi_num |-> RoiNum(variant)]

\* load_data: every variant becomes a row, entry by entry.
RECURSIVE load_data(_)
load_data(entries) ==
    IF entries = <<>> THEN <<>>
    ELSE [k \in 1..Len(entries[1].variants) |-> Row(entries[1], entries[1].variants[k])]
             \o load_data(Tail(entries))

\* doebi123.py: df = load_data() and the roi_num column.
LoadData ==
    /\ stage = "load"
    /\ df' = Some(load_data(Val(usd)))
    /\ stage' = "top"
    /\ UNCHANGED <<records, idx, cache, calls, grouped, usd, top_properties,
                   fetchVars, fileVars, analysisVars>>

\* DataFrame.nlargest(n, 'roi_num'), keep='first': the n rows with the largest
\* roi_num in descending order, rows with equal roi_num in the order of df.
InsertRow(sorted, row) ==
    LET before == {n \in 1..Len(sorted) : RatLt(sorted[n].roi_num, row.roi_num)}
        at == IF before = {} THEN Len(sorted) + 1
              ELSE CHOOSE n \in before : \A m \in before : n <= m
    IN  SubSeq(sorted, 1, at - 1) \o <<row>> \o SubSeq(sorted, at, Len(sorted))

RECURSIVE SortRows(_, _)
SortRows(sorted, rest) ==
    IF rest = <<>> THEN sorted ELSE SortRows(InsertRow(sorted, rest[1]), Tail(rest))

nlargest(n, rows) ==
    SubSeq(SortRows(<<>>, rows), 1, IF Len(rows) < n THEN Len(rows) ELSE n)

\* top_properties = filtered_df.nlargest(10, 'roi_num'); filtered_df is df.
TopProperties ==
    /\ stage = "top"
    /\ top_properties' = Some(nlargest(TopCount, Val(df)))
    /\ stage' = "shown"
    /\ UNCHANGED <<records, idx, cache, calls, grouped, usd, df,
                   fetchVars, fileVars, analysisVars>>

NextPost ==
    \/ EnrichNext
    \/ SaveUpdated
    \/ GroupVariants
    \/ ConvertValues
    \/ LoadData
    \/ TopProperties

\* The exports the post-processing starts from: the analysis of n groups
\* spread over (n + 1) \div 2 buildings, group k with ROI k; group "heavy"
\* (if any) has two rent and two sale listings, and the listings of group
\* "geoless" (if any) have no geolocation.
BuildingNames == <<"B1", "B2", "B3", "B4", "B5", "B6", "B7", "B8">>

PostListing(id, n, k, price, geoless) ==
    Listing(id, Bld(BuildingNames[((k - 1) % ((n + 1) \div 2)) + 1]), Some(1), Some(1),
            Some(IF k <= (n + 1) \div 2 THEN 650 ELSE 850), Some(price),
            IF k = geoless THEN NoGeo
            ELSE IF n <= 2 THEN Geo(Some(250 + k), Some(550 + k))
            ELSE Geo(Some(250), Some(550)),
            Nb(<<"Downtown">>))

PostRents(n, heavy, geoless) ==
    [k \in 1..n |-> PostListing(k, n, k, 1000 * k, geoless)]
        \o (IF heavy = 0 THEN <<>>
            ELSE <<PostListing(200 + heavy, n, heavy, 1000 * heavy, geoless)>>)

PostSales(n, heavy, geoless) ==
    [k \in 1..n |-> PostListing(100 + k, n, k, 100000, geoless)]
        \o (IF heavy = 0 THEN <<>>
            ELSE <<PostListing(300 + heavy, n, heavy, 100000, geoless)>>)

Exports ==
    UNION {{Val(Analyze(PostRents(n, heavy, geoless), PostSales(n, heavy, geoless))) :
               heavy \in 0..n, geoless \in {0, n}} : n \in 1..MaxGroups}

\* update_json_file has loaded an export; the analysis that wrote it is over.
InitPost ==
    /\ NoFetch
    /\ records \in Exports
    /\ idx = 1
    /\ cache = <<>>
    /\ calls = <<>>
    /\ grouped = None
    /\ usd = None
    /\ df = None
    /\ top_properties = None
    /\ stage = "enrich"
    /\ rent_file = MissingFile
    /\ sale_file = MissingFile
    /\ rent_data = <<>>
    /\ sale_data = <<>>
    /\ building_data = <<>>
    /\ i = 1
    /\ j = 1
    /\ results = records
    /\ output = Some(records)
    /\ pc = "done"

SpecPost == InitPost /\ [][NextPost]_vars

\* Coordinates, in tenths of a degree, that lie less than 0.00001 degree
\* apart: 0 and 1/3 of 0.00001 degree round to the key 0, 2/3 of it and
\* 0.00001 degree to the key 1.
NearCoordinates == {<<0, 1>>, <<1, 30000>>, <<2, 30000>>, <<1, 10000>>}

\* Exports of three groups whose averaged longitudes are such coordinates.
NearExports ==
    LET base == Val(Analyze(PostRents(3, 0, 0), PostSales(3, 0, 0)))
    IN  {[k \in 1..Len(base) |->
             [base[k] EXCEPT !.geolocation = Some([lat |-> <<2500, 1>>, lng |-> lngs[k]])]] :
         lngs \in [1..Len(base) -> NearCoordinates]}

\* update_json_file has loaded an export with such coordinates.
InitNear ==
    /\ NoFetch
    /\ records \in NearExports \cup {Val(Analyze(PostRents(1, 0, 1), PostSales(1, 0, 1)))}
    /\ idx = 1
    /\ cache = <<>>
    /\ calls = <<>>
    /\ grouped = None
    /\ usd = None
    /\ df = None
    /\ top_properties = None
    /\ stage = "enrich"
    /\ rent_file = MissingFile
    /\ sale_file = MissingFile
    /\ rent_data = <<>>
    /\ sale_data = <<>>
    /\ building_data = <<>>
    /\ i = 1
    /\ j = 1
    /\ results = records
    /\ output = Some(records)
    /\ pc = "done"

SpecNear == InitNear /\ [][NextPost]_vars

\* Record lists as group_variants can be given them: four records of two
\* interleaved buildings, each record at coordinates of its own, and any of
\* them without a building name (written "" for a missing, null or empty
\* "building"), which the analysis never writes but a file may hold.
BlankedExports ==
    LET base == Val(Analyze(PostRents(4, 0, 0), PostSales(4, 0, 0)))
    IN  {[k \in 1..Len(base) |->
             [base[k] EXCEPT !.building = IF k \in blank THEN "" ELSE @,
                             !.geolocation = Some([lat |-> <<250 + k, 1>>,
                                                   lng |-> <<550 + k, 1>>])]] :
         blank \in SUBSET (1..Len(base))}

\* update_json_file has loaded such a list.
InitGroup ==
    /\ NoFetch
    /\ records \in BlankedExports
    /\ idx = 1
    /\ cache = <<>>
    /\ calls = <<>>
    /\ grouped = None
    /\ usd = None
    /\ df = None
    /\ top_properties = None
    /\ stage = "enrich"
    /\ rent_file = MissingFile
    /\ sale_file = MissingFile
    /\ rent_data = <<>>
    /\ sale_data = <<>>
    /\ building_data = <<>>
    /\ i = 1
    /\ j = 1
    /\ results = records
    /\ output = Some(records)
    /\ pc = "done"

SpecGroup == InitGroup /\ [][NextPost]_vars

\* Listings of one building at one place whose sizes fall into the buckets
\* -200, 0, 600 and 1000 (rent) and -200, 200, 600 and 1000 (sale): the
\* groups written are those of the buckets -200, 600 and 1000.
RentRange ==
    { Located(1, "A", -50, 1000, 251, 551, <<"Downtown">>),
      Located(2, "A", 199, 2000, 251, 551, <<"Downtown">>),
      Located(3, "A", 650, 3000, 251, 551, <<"Downtown">>),
      Located(4, "A", 1000, 4000, 251, 551, <<"Downtown">>) }

SaleRange ==
    { Located(5, "A", -1, 100000, 251, 551, <<"Downtown">>),
      Located(6, "A", 200, 200000, 251, 551, <<"Downtown">>),
      Located(7, "A", 799, 300000, 251, 551, <<"Downtown">>),
      Located(8, "A", 1199, 400000, 251, 551, <<"Downtown">>) }

RangeExports ==
    {Val(Analyze(rents, sales)) :
        rents \in BSeq(RentRange, MaxRent), sales \in BSeq(SaleRange, MaxSale)}

\* update_json_file has loaded the export the analysis wrote for them.
InitRange ==
    /\ NoFetch
    /\ records \in RangeExports
    /\ idx = 1
    /\ cache = <<>>
    /\ calls = <<>>
    /\ grouped = None
    /\ usd = None
    /\ df = None
    /\ top_properties = None
    /\ stage = "enrich"
    /\ rent_file = MissingFile
    /\ sale_file = MissingFile
    /\ rent_data = <<>>
    /\ sale_data = <<>>
    /\ building_data = <<>>
    /\ i = 1
    /\ j = 1
    /\ results = records
    /\ output = Some(records)
    /\ pc = "done"

SpecRange == InitRange /\ [][NextPost]_vars

(***************************************************************************)
(* Vocabulary of the properties.                                           *)
(***************************************************************************)
\* The GroupKey (building, bedrooms, bathrooms, size bucket) of a listing.
FullKey(item) == <<Val(BuildingName(item))>> \o GroupKeyOf(item)

\* The positions of the accepted listings of each stream in rent_data + sale_data.
RentPositions == {k \in 1..Len(rent_data) : Accepted(Items[k])}
SalePositions == {k \in (Len(rent_data) + 1)..Len(Items) : Accepted(Items[k])}
AcceptedPositions == RentPositions \cup SalePositions
InputKeys == {FullKey(Items[k]) : k \in AcceptedPositions}

LoopDone == pc # "raised" /\ i > Len(Items)
Done == pc = "done"
Out == Val(output)

GroupFullKey(g) == <<g.building>> \o g.key
RecordHasKey(r, key) ==
    /\ r.building = key[1]
    /\ r.bedrooms = key[2]
    /\ r.bathrooms = key[3]
    /\ r.size_range = SizeRangeStr(key[4])
OutputHasKey(key) == \E n \in 1..Len(Out) : RecordHasKey(Out[n], key)

\* The accumulator of a GroupKey in a building_data value (empty when absent).
DataOf(bd, key) ==
    LET gs == Groups(bd)
    IN  IF \E n \in 1..Len(gs) : GroupFullKey(gs[n]) = key
        THEN gs[CHOOSE n \in 1..Len(gs) : GroupFullKey(gs[n]) = key].data
        ELSE EmptyData

\* The prices of the accepted listings with the given key among positions
\* from..to of rent_data + sale_data, in input order.
RECURSIVE PricesAt(_, _, _)
PricesAt(key, from, to) ==
    IF from > to THEN <<>>
    ELSE (IF Accepted(Items[from]) /\ FullKey(Items[from]) = key
          THEN <<Val(Items[from].price)>> ELSE <<>>) \o PricesAt(key, from + 1, to)

(***************************************************************************)
(* C1: once the analysis has written its output, the output has a record   *)
(* for a GroupKey if and only if an accepted rent-stream listing and an    *)
(* accepted sale-stream listing have that GroupKey.                        *)
(***************************************************************************)
C1_OutputIffBothStreams ==
    Done =>
        \A key \in InputKeys :
            OutputHasKey(key) <=>
                /\ \E k \in RentPositions : FullKey(Items[k]) = key
                /\ \E k \in SalePositions : FullKey(Items[k]) = key

(***************************************************************************)
(* C2: a step that processes an accepted sale-stream listing appends its   *)
(* price to the sale list of its group and leaves the rent list alone; a   *)
(* step on an accepted rent-stream listing does the converse.              *)
(***************************************************************************)
C2_StreamDecidesList ==
    [][(pc = "run" /\ i <= Len(Items) /\ Accepted(Items[i])) =>
          LET key == FullKey(Items[i])
              price == Val(Items[i].price)
              old == DataOf(building_data, key)
              new == DataOf(building_data', key)
          IN  IF i > Len(rent_data)
              THEN new.sale = Append(old.sale, price) /\ new.rent = old.rent
              ELSE new.rent = Append(old.rent, price) /\ new.sale = old.sale]_vars

(***************************************************************************)
(* C3: when some group has rent and sale samples and a sale mean of 0, the *)
(* analysis does not fail; it writes the output, which leaves that group   *)
(* out and holds every other group that has rent and sale samples.         *)
(***************************************************************************)
ZeroSaleGroups ==
    {n \in 1..Len(Groups(building_data)) :
        /\ Qualifies(Groups(building_data)[n].data)
        /\ SumSeq(Groups(building_data)[n].data.sale) = 0}

C3_ZeroSaleMeanSkipped ==
    (i > Len(Items) /\ ZeroSaleGroups # {}) =>
        /\ pc # "raised"
        /\ Done =>
              \A n \in 1..Len(Groups(building_data)) :
                  OutputHasKey(GroupFullKey(Groups(building_data)[n])) <=>
                      /\ Qualifies(Groups(building_data)[n].data)
                      /\ n \notin ZeroSaleGroups

(***************************************************************************)
(* C4: the written output is ordered by weighted_roi, non-increasing:      *)
(* each record's weighted_roi is at least that of the record after it.     *)
(***************************************************************************)
C4_SortedDescending ==
    Done =>
        \A n \in 1..(Len(Out) - 1) :
            RatLeq(Out[n + 1].weighted_roi, Out[n].weighted_roi)

\* The position of a record's group in the iteration order of building_data.
GroupPosition(r) ==
    CHOOSE n \in 1..Len(Groups(building_data)) :
        RecordHasKey(r, GroupFullKey(Groups(building_data)[n]))

\* The sort moved a group with a greater weighted_roi ahead of a group the
\* scoring loop had visited before it.
C4_Witness ==
    /\ Done
    /\ \E p, q \in 1..Len(Out) :
          /\ p < q
          /\ RatLt(Out[q].weighted_roi, Out[p].weighted_roi)
          /\ GroupPosition(Out[q]) < GroupPosition(Out[p])

(***************************************************************************)
(* C7: every emitted record carries the arithmetic means of its group's    *)
(* rent and sale lists, roi = avg_rent / avg_sale * 100, the two list      *)
(* lengths, weight = the smaller length (at least 1), and weighted_roi =   *)
(* roi * weight; rent {1000, 1200} and sale {100000, 120000} give roi 1,   *)
(* weight 2, weighted_roi 2.  Equalities of rationals are stated by cross  *)
(* multiplication.                                                         *)
(***************************************************************************)
C7_RecordFormulas ==
    Done =>
        \A n \in 1..Len(Out) :
            LET r == Out[n]
                d == Groups(building_data)[GroupPosition(r)].data
            IN  /\ r.avg_rent[1] * Len(d.rent) = SumSeq(d.rent) * r.avg_rent[2]
                /\ r.avg_sale[1] * Len(d.sale) = SumSeq(d.sale) * r.avg_sale[2]
                /\ r.roi[1] * r.avg_sale[1] * r.avg_rent[2]
                      = 100 * r.avg_rent[1] * r.avg_sale[2] * r.roi[2]
                /\ r.rent_samples = Len(d.rent)
                /\ r.sale_samples = Len(d.sale)
                /\ r.weight \in {r.rent_samples, r.sale_samples}
                /\ r.weight <= r.rent_samples
                /\ r.weight <= r.sale_samples
                /\ r.weight >= 1
                /\ r.weighted_roi[1] * r.roi[2] = r.roi[1] * r.weight * r.weighted_roi[2]
                /\ (/\ d.rent \in {<<1000, 1200>>, <<1200, 1000>>}
                    /\ d.sale \in {<<100000, 120000>>, <<120000, 100000>>})
                      => /\ r.avg_rent = <<1100, 1>>
                         /\ r.avg_sale = <<110000, 1>>
                         /\ r.roi = <<1, 1>>
                         /\ r.weight = 2
                         /\ r.weighted_roi = <<2, 1>>

\* The example of the claim has been scored.
C7_Witness ==
    /\ Done
    /\ \E n \in 1..Len(Out) :
          /\ Groups(building_data)[GroupPosition(Out[n])].data.rent = <<1000, 1200>>
          /\ Groups(building_data)[GroupPosition(Out[n])].data.sale = <<100000, 120000>>

(***************************************************************************)
(* C8: after all input is consumed, the groups are exactly the GroupKeys   *)
(* of the accepted listings, one accumulator per GroupKey, and each        *)
(* accumulator's rent (sale) list holds exactly the prices of the accepted *)
(* rent-stream (sale-stream) listings with that GroupKey, once each; so    *)
(* two accepted listings of a stream share an accumulator exactly when     *)
(* their GroupKeys are equal.                                              *)
(***************************************************************************)
C8_GroupsPoolByKey ==
    LoopDone =>
        LET gs == Groups(building_data)
        IN  /\ {GroupFullKey(gs[n]) : n \in 1..Len(gs)} = InputKeys
            /\ \A n, m \in 1..Len(gs) :
                  GroupFullKey(gs[n]) = GroupFullKey(gs[m]) => n = m
            /\ \A n \in 1..Len(gs) :
                  /\ gs[n].data.rent = PricesAt(GroupFullKey(gs[n]), 1, Len(rent_data))
                  /\ gs[n].data.sale =
                        PricesAt(GroupFullKey(gs[n]), Len(rent_data) + 1, Len(Items))

(***************************************************************************)
(* C5 as claimed: of two output records with equal weighted_roi, the one   *)
(* whose GroupKey was first seen earlier in rent_data + sale_data comes    *)
(* first, whatever buildings the two groups belong to.                     *)
(***************************************************************************)
Min(S) == CHOOSE x \in S : \A y \in S : x <= y
RecordKey(r) == CHOOSE key \in InputKeys : RecordHasKey(r, key)
FirstSeenKey(key) == Min({k \in AcceptedPositions : FullKey(Items[k]) = key})
FirstSeenBuilding(name) == Min({k \in AcceptedPositions : FullKey(Items[k])[1] = name})
Tied(p, q) == Out[p].weighted_roi = Out[q].weighted_roi

Reorderings(s) ==
    {[k \in 1..Len(s) |-> s[f[k]]] :
        f \in {g \in [1..Len(s) -> 1..Len(s)] : \A a, b \in 1..Len(s) : g[a] = g[b] => a = b}}

DistinctRoi == \A p, q \in 1..Len(Out) : Tied(p, q) => p = q

HoldsPrice(data, price) ==
    \/ \E m \in 1..Len(data.rent) : data.rent[m] = price
    \/ \E m \in 1..Len(data.sale) : data.sale[m] = price

GroupsHolding(k) ==
    LET gs == Groups(building_data)
    IN  {n \in 1..Len(gs) : HoldsPrice(gs[n].data, Val(Items[k].price))}

SameInterval(a, b) ==
    \E k \in -5..5 : /\ 200 * k <= a /\ a <= 200 * k + 199
                     /\ 200 * k <= b /\ b <= 200 * k + 199

ExpectedSizeRange(b) ==
    CASE b = -200 -> <<"-", "2", "0", "0", "-", "-", "1", " ", "s", "q", "f", "t">>
      [] b = 0 -> <<"0", "-", "1", "9", "9", " ", "s", "q", "f", "t">>
      [] b = 200 -> <<"2", "0", "0", "-", "3", "9", "9", " ", "s", "q", "f", "t">>
      [] b = 600 -> <<"6", "0", "0", "-", "7", "9", "9", " ", "s", "q", "f", "t">>
      [] b = 800 -> <<"8", "0", "0", "-", "9", "9", "9", " ", "s", "q", "f", "t">>
      [] OTHER -> <<>>

\* The groups the scoring loop has visited and scored, in that order.
RECURSIVE ScoredGroups(_, _)
ScoredGroups(gs, n) ==
    IF n = 0 THEN <<>>
    ELSE ScoredGroups(gs, n - 1) \o (IF Qualifies(gs[n].data) THEN <<gs[n]>> ELSE <<>>)

MissingField(item) ==
    \/ item.building.tag \in {"none", "noname"}
    \/ item.building.tag = "named" /\ item.building.en = ""
    \/ item.bedrooms = None
    \/ item.bathrooms = None
    \/ item.size = None
    \/ item.price = None

C10_DroppedListingFrame ==
    [][(pc = "run" /\ i <= Len(Items) /\ MissingField(Items[i]))
          => building_data' = building_data]_vars

\* A listing with a missing field has just been processed while building_data
\* held a group, and the run goes on.
C10_Witness ==
    /\ pc = "run"
    /\ i > 1
    /\ i <= Len(Items) + 1
    /\ j = 1
    /\ MissingField(Items[i - 1])
    /\ Items[i - 1].building.tag # "nullname"
    /\ building_data # <<>>

(***************************************************************************)
(* C11: a step of the listing loop never raises, whichever consumed fields *)
(* of the listing are absent or null (building.name null,                  *)
(* neighborhoods.name null and a _geoloc without lat or lng included): the *)
(* listing is dropped or aggregated and the loop goes on to the next one.  *)
(***************************************************************************)
C11_ListingNeverRaises ==
    [][(pc = "run" /\ i <= Len(Items)) => (pc' = "run" /\ i' = i + 1)]_vars

(***************************************************************************)
(* C12: the geolocation of a written record is None when no accepted       *)
(* listing of its group, from either stream, carried both lat and lng;     *)
(* otherwise it is the pair (mean of lat, mean of lng) over exactly the    *)
(* accepted listings of the group that carried both.  Points (25.0, 55.0)  *)
(* and (25.2, 55.2) give (25.1, 55.1); coordinates are in tenths.          *)
(***************************************************************************)
CarriesPoint(item) == item.geoloc.lat # None /\ item.geoloc.lng # None

\* The positions of the accepted listings of a GroupKey that carry a point.
PointPositions(key) ==
    {k \in AcceptedPositions : FullKey(Items[k]) = key /\ CarriesPoint(Items[k])}

RECURSIVE SumLat(_)
SumLat(P) ==
    IF P = {} THEN 0
    ELSE LET k == CHOOSE x \in P : TRUE
         IN  Val(Items[k].geoloc.lat) + SumLat(P \ {k})

RECURSIVE SumLng(_)
SumLng(P) ==
    IF P = {} THEN 0
    ELSE LET k == CHOOSE x \in P : TRUE
         IN  Val(Items[k].geoloc.lng) + SumLng(P \ {k})

C12_GeolocationIsMean ==
    Done =>
        \A n \in 1..Len(Out) :
            LET P == PointPositions(RecordKey(Out[n]))
                g == Out[n].geolocation
            IN  /\ P = {} => g = None
                /\ P # {} =>
                      /\ g # None
                      /\ Val(g).lat[1] * Cardinality(P) = SumLat(P) * Val(g).lat[2]
                      /\ Val(g).lng[1] * Cardinality(P) = SumLng(P) * Val(g).lng[2]
                /\ {<<Val(Items[k].geoloc.lat), Val(Items[k].geoloc.lng)>> : k \in P}
                      = {<<250, 550>>, <<252, 552>>} /\ Cardinality(P) = 2
                      => g = Some([lat |-> <<251, 1>>, lng |-> <<551, 1>>])

\* A record was written for a group with the two points of the example and
\* with accepted listings whose _geoloc lacks lat or lng.
C12_Witness ==
    /\ Done
    /\ \E n \in 1..Len(Out) :
          /\ Out[n].geolocation = Some([lat |-> <<251, 1>>, lng |-> <<551, 1>>])
          /\ Cardinality(PointPositions(RecordKey(Out[n]))) = 2
          /\ \E k \in AcceptedPositions :
                /\ FullKey(Items[k]) = RecordKey(Out[n])
                /\ ~CarriesPoint(Items[k])
                /\ Items[k].geoloc.tag = "dict"

(***************************************************************************)
(* C13: the neighborhoods of a written record hold exactly the names in    *)
(* the name lists of the accepted listings of its group (their union),     *)
(* each name once, in ascending order; being a function of that set, the   *)
(* field does not depend on the order the listings arrived in.             *)
(***************************************************************************)
NamesOf(key) ==
    UNION {{Items[k].neighborhoods.en[m] : m \in 1..Len(Items[k].neighborhoods.en)} :
              k \in {a \in AcceptedPositions : FullKey(Items[a]) = key}}

C13_NeighborhoodsSortedUnion ==
    Done =>
        \A n \in 1..Len(Out) :
            LET names == Out[n].neighborhoods
            IN  /\ {names[m] : m \in 1..Len(names)} = NamesOf(RecordKey(Out[n]))
                /\ \A m \in 1..(Len(names) - 1) : StrLt(names[m], names[m + 1])

\* A record was written whose three names came from three listings, one name
\* given by two of them, the first listing not holding the smallest name.
C13_Witness ==
    /\ Done
    /\ \E n \in 1..Len(Out) :
          /\ Out[n].neighborhoods = <<"Al Barsha", "Downtown", "Marina">>
          /\ \E k, m \in AcceptedPositions :
                /\ k < m
                /\ Items[k].neighborhoods.en = <<"Marina">>
                /\ Items[m].neighborhoods.en = <<"Al Barsha", "Marina">>

(***************************************************************************)
(* C14: when the rent list or the sale list is empty after loading (its    *)
(* file missing or not valid JSON included), the analysis does not raise   *)
(* and the output it writes is the empty list.                             *)
(***************************************************************************)
C14_EmptyStreamEmptyOutput ==
    (pc # "load" /\ (rent_data = <<>> \/ sale_data = <<>>)) =>
        /\ pc # "raised"
        /\ Done => Out = <<>>

(***************************************************************************)
(* C17: once the scoring loop has started, no step creates or changes a    *)
(* group accumulator; at every moment each accumulator has at most one     *)
(* record in results, and only accumulators the scoring loop has visited   *)
(* have one; and no two records of the written output have the same        *)
(* (building, bedrooms, bathrooms, size_range).                            *)
(***************************************************************************)
ScoringStarted == pc # "load" /\ i > Len(Items)

RecordsOf(rs, g) == {m \in 1..Len(rs) : RecordHasKey(rs[m], GroupFullKey(g))}

SameGroupFields(p, q) ==
    /\ p.building = q.building
    /\ p.bedrooms = q.bedrooms
    /\ p.bathrooms = q.bathrooms
    /\ p.size_range = q.size_range

C17_FinalizedOnce ==
    /\ [][ScoringStarted => building_data' = building_data]_vars
    /\ [](\A n \in 1..Len(Groups(building_data)) :
             /\ Cardinality(RecordsOf(results, Groups(building_data)[n])) <= 1
             /\ n >= j => RecordsOf(results, Groups(building_data)[n]) = {})
    /\ [](Done => \A p, q \in 1..Len(Out) : SameGroupFields(Out[p], Out[q]) => p = q)

\* Two groups of one building were each converted to a record, and the
\* written output holds both.
C17_Witness ==
    /\ Done
    /\ \E p, q \in 1..Len(Out) :
          /\ p # q
          /\ Out[p].building = Out[q].building
          /\ Out[p].size_range # Out[q].size_range
    /\ Len(Groups(building_data)) >= 2

(***************************************************************************)
(* C18: in main, whatever the interleaving of the two fetch coroutines,    *)
(* the analysis is entered only when both coroutines have finished and the *)
(* listing file of each holds the complete list it fetched; so the lists   *)
(* the analysis loads are the two fetched lists, never those of a missing  *)
(* or partly written file.                                                 *)
(***************************************************************************)
AnalysisEntered == pc \in {"load", "run", "done", "raised"}

RECURSIVE HitsOf(_)
HitsOf(rs) == IF rs = <<>> THEN <<>> ELSE rs[1].hits \o HitsOf(Tail(rs))

Stopped(s) == fpc[s] \in {"closing", "written", "raised"}

C15_EnrichmentNeverRaises ==
    [][(stage = "enrich" /\ idx <= Len(records)) =>
          /\ stage' = "enrich"
          /\ idx' = idx + 1
          /\ records[idx].geolocation = None => records' = records]_vars

(***************************************************************************)
(* C16: every call of the reverse geocoder made for a record with a        *)
(* geolocation is made with latitude = the record's geolocation.lat and    *)
(* longitude = its geolocation.lng.                                        *)
(***************************************************************************)
C16_QueriesAtRecordCoordinates ==
    [][(stage = "enrich" /\ idx <= Len(records) /\ records[idx].geolocation # None) =>
          \A k \in (Len(calls) + 1)..Len(calls') :
              calls'[k] = <<Val(records[idx].geolocation).lat,
                            Val(records[idx].geolocation).lng>>]_vars

(***************************************************************************)
(* C19 as claimed: the top list of the dashboard is the first 10 records   *)
(* of the export (fewer when it has fewer), in the order of the export.    *)
(***************************************************************************)
KeyFields(r) == <<r.building, r.bedrooms, r.bathrooms, r.size_range>>
Shown == stage = "shown"
Top == Val(top_properties)
Least(a, b) == IF a < b THEN a ELSE b

C19_TopIsCoreOrder ==
    Shown =>
        [k \in 1..Len(Top) |-> KeyFields(Top[k])]
            = [k \in 1..Least(TopCount, Len(records)) |-> KeyFields(records[k])]

(***************************************************************************)
(* C19 amended: the top list of the dashboard holds 10 of the exported     *)
(* groups (all of them when there are fewer), each once, in descending     *)
(* order of roi, and no group left out has a larger roi than a group in    *)
(* the list: it is ranked by roi, not by weighted_roi.                     *)
(***************************************************************************)
C19_TopIsLargestRoi ==
    Shown =>
        /\ Len(Top) = Least(TopCount, Len(records))
        /\ \A k \in 1..(Len(Top) - 1) : RatLeq(Top[k + 1].roi, Top[k].roi)
        /\ \A k, m \in 1..Len(Top) : KeyFields(Top[k]) = KeyFields(Top[m]) => k = m
        /\ \A k \in 1..Len(Top) :
              \E m \in 1..Len(records) :
                  /\ KeyFields(records[m]) = KeyFields(Top[k])
                  /\ records[m].roi = Top[k].roi
                  /\ records[m].weighted_roi = Top[k].weighted_roi
        /\ \A m \in 1..Len(records) :
              (\A k \in 1..Len(Top) : KeyFields(Top[k]) # KeyFields(records[m]))
                  => \A k \in 1..Len(Top) : RatLeq(records[m].roi, Top[k].roi)

\* The export has more than 10 groups, and a group among its first 10 is not
\* in the top list of the dashboard.
C19_Witness ==
    /\ Shown
    /\ Len(records) > TopCount
    /\ \E m \in 1..TopCount :
          \A k \in 1..Len(Top) : KeyFields(Top[k]) # KeyFields(records[m])

(***************************************************************************)
(* Vocabulary of the claims about get_neighborhood: the record the loop    *)
(* of update_json_file is at, the coordinates it passes, and their key.    *)
(***************************************************************************)
AtRecord ==
    /\ stage = "enrich"
    /\ idx <= Len(records)
    /\ records[idx].geolocation # None

PassedLat == Val(records[idx].geolocation).lng

PassedLon == Val(records[idx].geolocation).lat

PassedKey == <<Round5(PassedLat), Round5(PassedLon)>>

RECURSIVE LeadingFailures(_)
LeadingFailures(outcomes) ==
    IF outcomes = <<>> \/ outcomes[1].kind # "failed"
    THEN 0
    ELSE 1 + LeadingFailures(Tail(outcomes))

\* What the first answer that is not a failure makes get_neighborhood return.
AnswerValue(outcome) ==
    IF outcome.kind = "found" THEN outcome.neighborhood ELSE None

(***************************************************************************)
(* C21: one call of get_neighborhood with retries = 3 invokes the          *)
(* geocoder at most 4 times and terminates.  With a key not yet cached it  *)
(* invokes the geocoder once per failing attempt and once more for the     *)
(* first attempt that does not fail, whose answer it returns; after the    *)
(* 4th consecutive failure it returns None.  With a cached key it makes    *)
(* no invocation.  The loop's own step logs exactly these invocations.     *)
(***************************************************************************)
C21_AtMostFourAttempts ==
    /\ [](AtRecord =>
            \A outcomes \in AttemptSeqs :
                LET got == get_neighborhood(PassedLat, PassedLon, cache, outcomes, Retries)
                    f == LeadingFailures(outcomes)
                IN  /\ Len(got.calls) <= 4
                    /\ CacheIndex(cache, PassedKey) # 0 => got.calls = <<>>
                    /\ (CacheIndex(cache, PassedKey) = 0 /\ f < 4) =>
                          /\ Len(got.calls) = f + 1
                          /\ got.value = AnswerValue(outcomes[f + 1])
                    /\ (CacheIndex(cache, PassedKey) = 0 /\ f >= 4) =>
                          /\ Len(got.calls) = 4
                          /\ got.value = None)
    /\ [][AtRecord =>
            /\ Len(calls') - Len(calls) \in 0..4
            /\ CacheIndex(cache, PassedKey) # 0 => calls' = calls
            /\ CacheIndex(cache, PassedKey) = 0 => Len(calls') > Len(calls)]_vars

\* A call that failed 4 times has returned, and a later call with the same
\* key has been answered from the cache.
C21_Witness ==
    /\ stage = "enrich"
    /\ idx >= 3
    /\ Len(calls) = 4
    /\ Len(cache) = 1
    /\ cache[1].value = None
    /\ records[1].neighborhoods = <<>>

(***************************************************************************)
(* Vocabulary of C22: the key of a record's coordinates as the loop passes *)
(* them, and the list update_json_file stores for a returned value.        *)
(***************************************************************************)
KeyOfRecord(r) ==
    <<Round5(Val(r.geolocation).lng), Round5(Val(r.geolocation).lat)>>

Stored(value) == IF value # None THEN <<Val(value)>> ELSE <<>>

(***************************************************************************)
(* C22: after a call of get_neighborhood returns v, the cache maps the     *)
(* rounded key of its coordinates to v, also when v is None; the entries   *)
(* written before are unchanged; and a call that follows with coordinates  *)
(* of the same rounded key returns v, makes no geocoder call and leaves    *)
(* the cache as it is.  In the loop of update_json_file: every record      *)
(* handled so far carries the value the cache holds for its key, no step   *)
(* changes an entry of the cache, and a step whose key is cached adds no   *)
(* geocoder call.                                                          *)
(***************************************************************************)
C22_CacheHoldsReturnedValue ==
    /\ [](AtRecord =>
            \A outcomes \in AttemptSeqs :
                LET got == get_neighborhood(PassedLat, PassedLon, cache, outcomes, Retries)
                    at == CacheIndex(got.cache, PassedKey)
                IN  /\ at # 0
                    /\ got.cache[at].value = got.value
                    /\ Len(got.cache) >= Len(cache)
                    /\ \A k \in 1..Len(cache) : got.cache[k] = cache[k]
                    /\ \A m \in 1..Len(records), later \in AttemptSeqs :
                          KeyOfRecord(records[m]) = PassedKey =>
                              get_neighborhood(Val(records[m].geolocation).lng,
                                               Val(records[m].geolocation).lat,
                                               got.cache, later, Retries)
                                  = [value |-> got.value, cache |-> got.cache, calls |-> <<>>])
    /\ []((stage = "enrich" /\ \A m \in 1..Len(records) : records[m].geolocation # None) =>
            \A m \in 1..(idx - 1) :
                /\ CacheIndex(cache, KeyOfRecord(records[m])) # 0
                /\ records[m].neighborhoods =
                       Stored(cache[CacheIndex(cache, KeyOfRecord(records[m]))].value))
    /\ [][/\ Len(cache') >= Len(cache)
          /\ \A k \in 1..Len(cache) : cache'[k] = cache[k]
          /\ (AtRecord /\ CacheIndex(cache, PassedKey) # 0) =>
                 (calls' = calls /\ cache' = cache)]_vars

\* Two records whose coordinates differ and round to the same key have been
\* handled: the geocoder was asked for the first one only, found nothing,
\* and both records got the cached None.
C22_Witness ==
    /\ stage = "enrich"
    /\ idx >= 3
    /\ records[1].geolocation # records[2].geolocation
    /\ KeyOfRecord(records[1]) = KeyOfRecord(records[2])
    /\ Len(cache) = 1
    /\ cache[1].value = None
    /\ records[1].neighborhoods = <<>>
    /\ records[2].neighborhoods = <<>>
    /\ \A k \in 1..Len(calls) :
          calls[k] = <<Val(records[1].geolocation).lng, Val(records[1].geolocation).lat>>

(***************************************************************************)
(* Vocabulary of C23: the records that have a building name, the first     *)
(* record of a building, and the records of a building in input order.     *)
(***************************************************************************)
WasGrouped == grouped # None

Named == {m \in 1..Len(records) : records[m].building # ""}

FirstOf(b) == CHOOSE m \in Named :
                  /\ records[m].building = b
                  /\ \A o \in Named : records[o].building = b => m <= o

PositionsOf(b) ==
    SelectSeq([m \in 1..Len(records) |-> m], LAMBDA m : records[m].building = b)

FirstNeighborhood(r) ==
    IF r.neighborhoods # <<>> THEN <<r.neighborhoods[1]>> ELSE <<>>

(***************************************************************************)
(* C23: group_variants returns one entry per distinct non-empty building   *)
(* name, in the order in which the buildings first occur in the input.     *)
(* The variants of an entry are built from the records of that building,   *)
(* one per record and in input order; records without a building give no   *)
(* variant; the neighborhood of an entry is that of the first record of    *)
(* its building.                                                           *)
(***************************************************************************)
C23_OneEntryPerBuilding ==
    WasGrouped =>
        LET G == Val(grouped)
        IN  /\ {G[k].building : k \in 1..Len(G)} = {records[m].building : m \in Named}
            /\ \A k, l \in 1..Len(G) :
                  /\ G[k].building = G[l].building => k = l
                  /\ k < l => FirstOf(G[k].building) < FirstOf(G[l].building)
            /\ \A k \in 1..Len(G) :
                  LET at == PositionsOf(G[k].building)
                  IN  /\ Len(G[k].variants) = Len(at)
                      /\ \A q \in 1..Len(at) :
                            /\ G[k].variants[q].size_range = records[at[q]].size_range
                            /\ G[k].variants[q].bedrooms = records[at[q]].bedrooms
                            /\ G[k].variants[q].bathrooms = records[at[q]].bathrooms
                            /\ G[k].variants[q].roi = records[at[q]].roi
                            /\ G[k].variants[q].avg_rent = records[at[q]].avg_rent
                            /\ G[k].variants[q].avg_sale = records[at[q]].avg_sale
                            /\ G[k].variants[q].geolocation = records[at[q]].geolocation
                      /\ G[k].neighborhood =
                             FirstNeighborhood(records[FirstOf(G[k].building)])

\* A list was grouped in which a record has no building, the records of one
\* building are separated by a record of another, and the first record of a
\* building has another neighborhood than a later record of it.
C23_Witness ==
    /\ WasGrouped
    /\ Named # 1..Len(records)
    /\ \E m, o, u \in Named :
          /\ m < o /\ o < u
          /\ records[m].building = records[u].building
          /\ records[o].building # records[m].building
          /\ records[m].neighborhoods # records[u].neighborhoods
    /\ \E k \in 1..Len(Val(grouped)) : Len(Val(grouped)[k].variants) >= 2

(***************************************************************************)
(* Vocabulary of C24: the size bucket a size_range string was rendered     *)
(* from, among the multiples of 200 from -400 to 1200.                     *)
(***************************************************************************)
BucketOf(str) ==
    CHOOSE b \in {200 * n : n \in -2..6} : SizeRangeStr(b) = str

(***************************************************************************)
(* C24: for every size_range the analysis rendered from a bucket b,        *)
(* parse_size_range returns (b, b + 199): min_sqft and max_sqft of every   *)
(* variant of the grouped file are the bounds of the bucket its size_range *)
(* was rendered from.                                                      *)
(***************************************************************************)
C24_ParseRecoversBucket ==
    WasGrouped =>
        \A k \in 1..Len(Val(grouped)) :
            \A q \in 1..Len(Val(grouped)[k].variants) :
                LET v == Val(grouped)[k].variants[q]
                    b == BucketOf(v.size_range)
                IN  /\ parse_size_range(v.size_range) = <<Some(b), Some(b + 199)>>
                    /\ v.min_sqft = Some(b)
                    /\ v.max_sqft = Some(b + 199)

=============================================================================
